---- MODULE Spec2Model ----
(***************************************************************************)
(* Model of pdf_util2.py: the merge pipeline (convert_images_to_pdf,       *)
(* merge_pdf_in_folder) and the protection batch (protect_files_in_folder) *)
(* over an abstract file system.  File names are sequences of character    *)
(* codes, so that glob matching, splitext and sorted() are computed as the *)
(* code computes them.                                                     *)
(***************************************************************************)
EXTENDS Integers, Sequences, FiniteSets, TLC

\* ---- bounds -------------------------------------------------------------
MaxFiles == 3      \* files initially present in the target directory
MaxPages == 2      \* pages of a PDF initially present
MaxRuns  == 2      \* operations started from the menu loop
MaxFaults == 1     \* conversions, reads and writes that fail, over all merge runs

\* ---- program constants --------------------------------------------------
MAX_RETRIES   == 5
DELAY_SECONDS == 1

\* ---- file names ---------------------------------------------------------
PdfExt  == <<46, 112, 100, 102>>          \* ".pdf"
JpgExt  == <<46, 106, 112, 103>>          \* ".jpg"
JpegExt == <<46, 106, 112, 101, 103>>     \* ".jpeg"
BmpExt  == <<46, 98, 109, 112>>           \* ".bmp"
XlsxExt == <<46, 120, 108, 115, 120>>     \* ".xlsx"
XlsExt  == <<46, 120, 108, 115>>          \* ".xls"

NameA == <<97>>                           \* "a"
NameB == <<98>>                           \* "b"
NameO == <<111>>                          \* "o"
NameS == <<115>>                          \* "s"

\* Files a target directory may hold when the merge menu entry is used.
MergeUniverse ==
    { NameA \o PdfExt, NameB \o PdfExt,
      NameA \o JpgExt, NameA \o BmpExt, NameB \o JpegExt }

\* Files a target directory may hold when the protect menu entry is used.
ProtectUniverse ==
    { NameA \o PdfExt, NameB \o PdfExt,
      NameS \o XlsxExt, NameS \o XlsExt, NameA \o JpgExt }

\* What the operator may type as the output file name.
TypedNames == { NameA \o PdfExt, NameO }

Passwords == { "p1", "p2" }

\* ---- pure helpers -------------------------------------------------------
Min(a, b) == IF a < b THEN a ELSE b

EndsWith(s, suf) ==
    /\ Len(s) >= Len(suf)
    /\ SubSeq(s, Len(s) - Len(suf) + 1, Len(s)) = suf

\* str.lower() on ASCII codes.
Lower(s) == [k \in 1..Len(s) |-> IF s[k] >= 65 /\ s[k] <= 90 THEN s[k] + 32 ELSE s[k]]

\* fnmatch of the pattern "*<ext>"; glob never lets "*" match a leading dot.
GlobMatch(name, ext) ==
    /\ Len(name) >= Len(ext)
    /\ EndsWith(name, ext)
    /\ name[1] # 46

\* glob(os.path.join(folder, "*<ext>")) as a set of entry names.
Glob(dir, ext) == { n \in DOMAIN dir : GlobMatch(n, ext) }

\* Python's string "<": code-point lexicographic order.
LexLess(s, t) ==
    \E k \in 1..(Min(Len(s), Len(t)) + 1) :
        /\ \A j \in 1..(k - 1) : s[j] = t[j]
        /\ \/ k = Len(s) + 1 /\ k <= Len(t)
           \/ k <= Len(s) /\ k <= Len(t) /\ s[k] < t[k]

RECURSIVE SortedReversed(_)
SortedReversed(S) ==
    IF S = {} THEN <<>>
    ELSE LET m == CHOOSE x \in S : \A y \in S \ {x} : LexLess(y, x)
         IN  <<m>> \o SortedReversed(S \ {m})

\* sorted(list of paths of one folder): ascending by name.
RECURSIVE Sorted(_)
Sorted(S) ==
    IF S = {} THEN <<>>
    ELSE LET m == CHOOSE x \in S : \A y \in S \ {x} : LexLess(x, y)
         IN  <<m>> \o Sorted(S \ {m})

\* All the orders in which glob (os.scandir) may list the entries of S.
RECURSIVE Orders(_)
Orders(S) ==
    IF S = {} THEN { <<>> }
    ELSE UNION { { <<x>> \o t : t \in Orders(S \ {x}) } : x \in S }

\* os.path.splitext(name)[0]: cut at the last dot that is not a leading dot.
SplitextBase(name) ==
    LET dots == { k \in 2..Len(name) : name[k] = 46 /\ \E j \in 1..(k - 1) : name[j] # 46 }
    IN  IF dots = {} THEN name
        ELSE SubSeq(name, 1, (CHOOSE k \in dots : \A j \in dots : j <= k) - 1)

\* f"{base_name}.pdf"
TempPdfName(img) == SplitextBase(img) \o PdfExt

\* run_merge_process: the typed name gets ".pdf" unless it already ends so.
ForcePdf(filename) ==
    IF EndsWith(Lower(filename), PdfExt) THEN filename ELSE filename \o PdfExt

Put(dir, n, v) == [x \in DOMAIN dir \cup {n} |-> IF x = n THEN v ELSE dir[x]]

EmptyDir == [x \in {} |-> x]

Range(s) == { s[k] : k \in DOMAIN s }

\* A file: np pages (0 for a non-PDF), valid = parsable, by = the run that
\* wrote it (0: present before the program started), from = source image.
File(np, valid, by, from) == [np |-> np, valid |-> valid, by |-> by, from |-> from]

VARIABLES
    target,            \* target directory: name -> file
    scratchExists,     \* the directory temp_pdfs_<pid> exists
    scratch,           \* its entries: name -> file
    protectedExists,   \* the directory <target>/protected exists
    protected,         \* its entries: name -> file
    pc,                \* position of the process
    faults,            \* failures of conversions, reads and writes so far
    runId,             \* operations started so far
    output_filename,
    temp_folder,       \* TRUE: convert_images_to_pdf returned the path; FALSE: None
    all_image_paths,
    all_pdf_files,     \* sequence of [loc, name]
    idx,               \* read loop position (1-based)
    writer,            \* pages of the PdfWriter: sequence of [doc, k]
    log,               \* status lines printed by the current run
    retry,             \* rmtree attempts made
    slept,             \* seconds spent in time.sleep during the current run
    convFailed,        \* images whose conversion raised
    failedDocs,        \* indexes of all_pdf_files whose read raised
    discovered,        \* the target directory as listed by the run
    writeAttempts,     \* open(output_path, "wb") calls of the current run
    pdf_files, excel_files, total_files, success_count,
    password,
    report,            \* <<success_count, total_files>> once printed, else <<>>
    pidx,              \* protect loop position (1-based, over pdf then excel)
    attempted,         \* files handed to add_password_to_*, in order
    succeeded          \* files for which add_password_to_* returned True

fsVars      == <<target, scratchExists, scratch, protectedExists, protected>>
mergeVars   == <<output_filename, temp_folder, all_image_paths, all_pdf_files, idx,
                 writer, retry, slept, convFailed, failedDocs, discovered, writeAttempts>>
protectVars == <<pdf_files, excel_files, total_files, success_count, password, report,
                 pidx, attempted, succeeded>>
vars        == <<fsVars, mergeVars, protectVars, pc, runId, log, faults>>

\* ---- initial states -----------------------------------------------------
InitialFile(n) ==
    IF EndsWith(n, PdfExt) THEN { File(p, TRUE, 0, <<>>) : p \in 1..MaxPages }
    ELSE { File(0, TRUE, 0, <<>>) }

InitialDirs(universe) ==
    UNION { { d \in [S -> UNION { InitialFile(n) : n \in S }] :
                \A n \in S : d[n] \in InitialFile(n) } :
            S \in { T \in SUBSET universe : Cardinality(T) <= MaxFiles } }

InitRest ==
    /\ scratchExists = FALSE
    /\ scratch = EmptyDir
    /\ protectedExists = FALSE
    /\ protected = EmptyDir
    /\ pc = "menu"
    /\ runId = 0
    /\ faults = 0
    /\ output_filename = <<>>
    /\ temp_folder = FALSE
    /\ all_image_paths = <<>>
    /\ all_pdf_files = <<>>
    /\ idx = 0
    /\ writer = <<>>
    /\ log = <<>>
    /\ retry = 0
    /\ slept = 0
    /\ convFailed = {}
    /\ failedDocs = {}
    /\ discovered = EmptyDir
    /\ writeAttempts = 0
    /\ pdf_files = <<>>
    /\ excel_files = <<>>
    /\ total_files = 0
    /\ success_count = 0
    /\ password = ""
    /\ report = <<>>
    /\ pidx = 0
    /\ attempted = <<>>
    /\ succeeded = {}

Init == target \in InitialDirs(MergeUniverse) /\ InitRest

ProtectInit == target \in InitialDirs(ProtectUniverse) /\ InitRest

\* ---- merge_pdf_in_folder ------------------------------------------------

\* main_menu choice "2" -> run_merge_process -> merge_pdf_in_folder entry.
StartMerge(typed) ==
    /\ pc = "menu"
    /\ runId < MaxRuns
    /\ typed # <<>>
    /\ runId' = runId + 1
    /\ output_filename' = ForcePdf(typed)
    /\ temp_folder' = FALSE
    /\ all_image_paths' = <<>>
    /\ all_pdf_files' = <<>>
    /\ idx' = 0
    /\ writer' = <<>>
    /\ log' = <<>>
    /\ retry' = 0
    /\ slept' = 0
    /\ convFailed' = {}
    /\ failedDocs' = {}
    /\ discovered' = EmptyDir
    /\ writeAttempts' = 0
    /\ pc' = "convert"
    /\ UNCHANGED <<fsVars, protectVars, faults>>

\* The loop body of convert_images_to_pdf over the images still to process:
\* a converted image is saved as <base>.pdf, replacing an entry of that name.
RECURSIVE ConvertAll(_, _, _, _)
ConvertAll(paths, ok, dir, run) ==
    IF paths = <<>> THEN dir
    ELSE LET img  == Head(paths)
             next == IF img \in ok
                     THEN Put(dir, TempPdfName(img), File(1, TRUE, run, img))
                     ELSE dir
         IN  ConvertAll(Tail(paths), ok, next, run)

\* What convert_images_to_pdf returns: the folder, or None without images.
ConvertReturn(paths) == paths # <<>>

ConvertImages ==
    /\ pc = "convert"
    /\ scratchExists' = TRUE
    /\ \E jpg \in Orders(Glob(target, JpgExt)),
          jpeg \in Orders(Glob(target, JpegExt)),
          bmp \in Orders(Glob(target, BmpExt)) :
          LET paths == jpg \o jpeg \o bmp IN
          /\ all_image_paths' = paths
          /\ temp_folder' = ConvertReturn(paths)
          /\ \E ok \in SUBSET Range(paths) :
                /\ faults + Cardinality(Range(paths) \ ok) <= MaxFaults
                /\ faults' = faults + Cardinality(Range(paths) \ ok)
                /\ scratch' = ConvertAll(paths, ok, scratch, runId)
                /\ convFailed' = Range(paths) \ ok
    /\ pc' = "collect"
    /\ UNCHANGED <<target, protectedExists, protected, runId, log, output_filename,
                   all_pdf_files, idx, writer, retry, slept, failedDocs, discovered,
                   writeAttempts, protectVars>>

Entries(loc, names) == [k \in 1..Len(names) |-> [loc |-> loc, name |-> names[k]]]

\* sorted(glob(os.path.join(folder, '*.pdf')))
SortedPdfs(dir) == Sorted(Glob(dir, PdfExt))

\* Step 2 of merge_pdf_in_folder: the list handed to the read loop.
CollectList(tdir, tf, sdir) ==
    IF tf THEN Entries("target", SortedPdfs(tdir)) \o Entries("temp", SortedPdfs(sdir))
    ELSE Entries("target", SortedPdfs(tdir))

Collect ==
    /\ pc = "collect"
    /\ all_pdf_files' = CollectList(target, temp_folder, scratch)
    /\ discovered' = target
    /\ IF all_pdf_files' = <<>>
       THEN /\ log' = Append(log, "nothing")
            /\ pc' = "cleanup"
            /\ idx' = idx
       ELSE /\ log' = log
            /\ pc' = "read"
            /\ idx' = 1
    /\ UNCHANGED <<fsVars, runId, output_filename, temp_folder, all_image_paths, writer,
                   retry, slept, convFailed, failedDocs, writeAttempts, protectVars, faults>>

FileAt(e) == IF e.loc = "target" THEN target[e.name] ELSE scratch[e.name]

\* What PdfReader(file_path) and the page loop can do on a file: add all its
\* pages, or raise after n of them were added (n = 0: raised at open).
ReadOutcomes(f) ==
    IF f.valid
    THEN { [ok |-> TRUE, n |-> f.np] } \cup
         { [ok |-> FALSE, n |-> r] : r \in 0..(IF f.np = 0 THEN 0 ELSE f.np - 1) }
    ELSE { [ok |-> FALSE, n |-> 0] }

\* writer.add_page for the n pages read from document number doc.
AddPages(w, doc, n) == w \o [k \in 1..n |-> [doc |-> doc, k |-> k]]

ReadDoc ==
    /\ pc = "read"
    /\ idx <= Len(all_pdf_files)
    /\ \E o \in ReadOutcomes(FileAt(all_pdf_files[idx])) :
          LET cost == IF ~o.ok /\ FileAt(all_pdf_files[idx]).valid THEN 1 ELSE 0 IN
          /\ faults + cost <= MaxFaults
          /\ faults' = faults + cost
          /\ writer' = AddPages(writer, idx, o.n)
          /\ failedDocs' = IF o.ok THEN failedDocs ELSE failedDocs \cup {idx}
    /\ idx' = idx + 1
    /\ pc' = IF idx = Len(all_pdf_files) THEN "write" ELSE "read"
    /\ UNCHANGED <<fsVars, runId, log, output_filename, temp_folder, all_image_paths,
                   all_pdf_files, retry, slept, convFailed, discovered, writeAttempts,
                   protectVars>>

WriteMessageOptimistic(outcome) == "success"

\* The status line printed by the write block for each outcome.
WriteMessage(outcome) == IF outcome = "ok" THEN "success" ELSE "fatal"

\* The target directory after open(output_path, "wb") / writer.write.
WriteEffect(dir, name, outcome, w, run) ==
    CASE outcome = "openfail"  -> dir
      [] outcome = "writefail" -> Put(dir, name, File(0, FALSE, run, <<>>))
      [] OTHER                 -> Put(dir, name, File(Len(w), TRUE, run, <<>>))

\* Step 4: compression (no effect on the page sequence; a failure on a page
\* is caught), then the single open/write of the output.
WriteOutput ==
    /\ pc = "write"
    /\ \E outcome \in {"openfail", "writefail", "ok"} :
          LET cost == IF outcome = "ok" THEN 0 ELSE 1 IN
          /\ faults + cost <= MaxFaults
          /\ faults' = faults + cost
          /\ target' = WriteEffect(target, output_filename, outcome, writer, runId)
          /\ log' = Append(log, WriteMessage(outcome))
    /\ writeAttempts' = writeAttempts + 1
    /\ pc' = "cleanup"
    /\ UNCHANGED <<scratchExists, scratch, protectedExists, protected, runId,
                   output_filename, temp_folder, all_image_paths, all_pdf_files, idx,
                   writer, retry, slept, convFailed, failedDocs, discovered, protectVars>>

\* The guard of the finally block.
CleanupNeeded(tf, exists) == tf /\ exists

CleanupSkip ==
    /\ pc = "cleanup"
    /\ ~CleanupNeeded(temp_folder, scratchExists)
    /\ pc' = "done"
    /\ UNCHANGED <<fsVars, mergeVars, protectVars, runId, log, faults>>

IsLastAttemptEarly(attempts) == attempts = MAX_RETRIES - 1

\* i == MAX_RETRIES - 1 in the except branch (attempts is the 1-based count).
IsLastAttempt(attempts) == attempts = MAX_RETRIES

\* One iteration of the retry loop, the sleep of the except branch included.
CleanupAttempt ==
    /\ pc = "cleanup"
    /\ CleanupNeeded(temp_folder, scratchExists)
    /\ retry' = retry + 1
    /\ \/ /\ scratchExists' = FALSE
          /\ scratch' = EmptyDir
          /\ log' = Append(log, "cleaned")
          /\ slept' = slept
          /\ pc' = "done"
       \/ /\ scratchExists' = TRUE
          /\ scratch' = scratch
          /\ IF IsLastAttempt(retry + 1)
             THEN /\ log' = Append(log, "leftover")
                  /\ slept' = slept
                  /\ pc' = "done"
             ELSE /\ log' = Append(log, "retrying")
                  /\ slept' = slept + DELAY_SECONDS
                  /\ pc' = "cleanup"
    /\ UNCHANGED <<target, protectedExists, protected, runId, output_filename,
                   temp_folder, all_image_paths, all_pdf_files, idx, writer, convFailed,
                   failedDocs, discovered, writeAttempts, protectVars, faults>>

\* The operation has returned: its locals are gone and the *_process wrapper
\* goes back to the menu.
ReturnToMenu ==
    /\ pc = "done"
    /\ pc' = "menu"
    /\ output_filename' = <<>>
    /\ temp_folder' = FALSE
    /\ all_image_paths' = <<>>
    /\ all_pdf_files' = <<>>
    /\ idx' = 0
    /\ writer' = <<>>
    /\ log' = <<>>
    /\ retry' = 0
    /\ slept' = 0
    /\ convFailed' = {}
    /\ failedDocs' = {}
    /\ discovered' = EmptyDir
    /\ writeAttempts' = 0
    /\ pdf_files' = <<>>
    /\ excel_files' = <<>>
    /\ total_files' = 0
    /\ success_count' = 0
    /\ password' = ""
    /\ report' = <<>>
    /\ pidx' = 0
    /\ attempted' = <<>>
    /\ succeeded' = {}
    /\ UNCHANGED <<fsVars, runId, faults>>

Next ==
    \/ \E typed \in TypedNames : StartMerge(typed)
    \/ ConvertImages
    \/ Collect
    \/ ReadDoc
    \/ WriteOutput
    \/ CleanupSkip
    \/ CleanupAttempt
    \/ ReturnToMenu

Spec == Init /\ [][Next]_vars

\* ---- protect_files_in_folder --------------------------------------------

\* An entry of <target>/protected.
Encrypted(np, valid, pw) == [np |-> np, valid |-> valid, password |-> pw]

\* glob('*.xlsx') + glob('*.xls'), in every order the listing may have.
ExcelLists(dir) ==
    { x1 \o x2 : x1 \in Orders(Glob(dir, XlsxExt)), x2 \in Orders(Glob(dir, XlsExt)) }

\* main_menu choice "3" -> run_password_protection -> protect_files_in_folder,
\* up to the first loop (or to the return when nothing is found).
StartProtect(pw) ==
    /\ pc = "menu"
    /\ runId < MaxRuns
    /\ pw # ""
    /\ runId' = runId + 1
    /\ password' = pw
    /\ protectedExists' = TRUE
    /\ \E pdfs \in Orders(Glob(target, PdfExt)), excels \in ExcelLists(target) :
          /\ pdf_files' = pdfs
          /\ excel_files' = excels
          /\ total_files' = Len(pdfs) + Len(excels)
    /\ success_count' = 0
    /\ report' = <<>>
    /\ attempted' = <<>>
    /\ succeeded' = {}
    /\ IF total_files' = 0
       THEN /\ log' = <<"nofiles">>
            /\ pidx' = 0
            /\ pc' = "done"
       ELSE /\ log' = <<>>
            /\ pidx' = 1
            /\ pc' = "protect"
    /\ UNCHANGED <<target, scratchExists, scratch, protected, mergeVars, faults>>

\* What add_password_to_pdf can do on a file.
PdfProtectOutcomes(f) ==
    IF f.valid THEN {"ok", "readfail", "writefail"} ELSE {"readfail"}

\* The return value of add_password_to_pdf / add_password_to_excel.
AddPasswordReturn(outcome) == outcome = "ok"

\* <target>/protected after one add_password_to_* call.
ProtectEffect(dir, name, f, outcome, pw) ==
    CASE outcome = "ok"        -> Put(dir, name, Encrypted(f.np, TRUE, pw))
      [] outcome = "writefail" -> Put(dir, name, Encrypted(0, FALSE, pw))
      [] OTHER                 -> dir

CountSuccessAlways(count, returned) == count + 1

\* "if add_password_to_...(...): success_count += 1"
CountSuccess(count, returned) == IF returned THEN count + 1 ELSE count

ProtectOne(name, outcome) ==
    /\ protected' = ProtectEffect(protected, name, target[name], outcome, password)
    /\ success_count' = CountSuccess(success_count, AddPasswordReturn(outcome))
    /\ succeeded' = IF AddPasswordReturn(outcome) THEN succeeded \cup {name} ELSE succeeded
    /\ attempted' = Append(attempted, name)
    /\ pidx' = pidx + 1
    /\ UNCHANGED <<target, scratchExists, scratch, protectedExists, mergeVars, faults,
                   pdf_files, excel_files, total_files, password, report, pc, runId, log>>

\* One iteration of the loop over pdf_files.
ProtectPdf ==
    /\ pc = "protect"
    /\ pidx <= Len(pdf_files)
    /\ \E outcome \in PdfProtectOutcomes(target[pdf_files[pidx]]) :
          ProtectOne(pdf_files[pidx], outcome)

\* One iteration of the loop over excel_files.
ProtectExcel ==
    /\ pc = "protect"
    /\ pidx > Len(pdf_files)
    /\ pidx <= Len(pdf_files) + Len(excel_files)
    /\ \E outcome \in {"ok", "readfail", "writefail"} :
          ProtectOne(excel_files[pidx - Len(pdf_files)], outcome)

\* The closing status line with the two counts.
ProtectReport ==
    /\ pc = "protect"
    /\ pidx > Len(pdf_files) + Len(excel_files)
    /\ report' = <<success_count, total_files>>
    /\ pc' = "done"
    /\ UNCHANGED <<fsVars, mergeVars, faults, runId, log, pdf_files, excel_files,
                   total_files, success_count, password, pidx, attempted, succeeded>>

ProtectNext ==
    \/ \E pw \in Passwords : StartProtect(pw)
    \/ ProtectPdf
    \/ ProtectExcel
    \/ ProtectReport
    \/ ReturnToMenu

ProtectSpec == ProtectInit /\ [][ProtectNext]_vars

\* ---- properties ---------------------------------------------------------

PdfNames(dir) == { n \in DOMAIN dir : EndsWith(n, PdfExt) }

IsTerminal(m) == m \in {"success", "nothing", "fatal"}

IsCleanupLine(m) == m \in {"cleaned", "retrying", "leftover"}

Terminals(l) == SelectSeq(l, IsTerminal)

Count(l, m) == Cardinality({ k \in DOMAIN l : l[k] = m })

Printed(m) == m \in Range(log)

RECURSIVE SumPages(_, _)
SumPages(dir, names) ==
    IF names = {} THEN 0
    ELSE LET n == CHOOSE x \in names : TRUE
         IN  dir[n].np + SumPages(dir, names \ {n})

\* The output file holds exactly the writer's pages, written by this run.
OutputWritten ==
    /\ output_filename \in DOMAIN target
    /\ target[output_filename] = File(Len(writer), TRUE, runId, <<>>)

\* C1: the documents handed to the read loop are the *.pdf entries of the
\* target directory in ascending lexicographic name order, followed by the
\* *.pdf entries of the scratch folder returned by the conversion step in
\* ascending lexicographic name order (no original after a normalized one);
\* the pages in the writer are grouped by document in that order, each
\* document's pages contiguous and in its own page order from page 1.
C1_MergeOrder ==
    LET n == Len(all_pdf_files) IN
    /\ pc \in {"read", "write"} =>
          /\ { e.name : e \in { x \in Range(all_pdf_files) : x.loc = "target" } }
                = PdfNames(target)
          /\ { e.name : e \in { x \in Range(all_pdf_files) : x.loc = "temp" } }
                = (IF temp_folder THEN PdfNames(scratch) ELSE {})
          /\ \A k \in 1..(n - 1) :
                IF all_pdf_files[k].loc = all_pdf_files[k + 1].loc
                THEN LexLess(all_pdf_files[k].name, all_pdf_files[k + 1].name)
                ELSE all_pdf_files[k].loc = "target" /\ all_pdf_files[k + 1].loc = "temp"
    /\ pc \in {"read", "write", "cleanup", "done"} =>
          \A p \in DOMAIN writer :
             /\ writer[p].doc \in 1..n
             /\ IF p = 1 THEN writer[p].k = 1
                ELSE \/ /\ writer[p].doc = writer[p - 1].doc
                        /\ writer[p].k = writer[p - 1].k + 1
                     \/ /\ writer[p].doc > writer[p - 1].doc
                        /\ writer[p].k = 1

\* Two originals and a normalized document were read, one of them with two pages.
C1_Witness ==
    /\ pc = "write"
    /\ Len(all_pdf_files) = 3
    /\ all_pdf_files[2].loc = "target"
    /\ all_pdf_files[3].loc = "temp"
    /\ { writer[p].doc : p \in DOMAIN writer } = {1, 2, 3}
    /\ \E p \in DOMAIN writer : writer[p].k = 2

\* C2: once merge_pdf_in_folder has returned, the scratch directory does not
\* exist, unless the leftover path was reported.
C2_NoResidue ==
    pc = "done" => (~scratchExists \/ Printed("leftover"))

\* C3: when no document was read successfully, the run prints "nothing to
\* merge", does not print success and never opens the output file.
C3_NothingToMerge ==
    (pc = "done" /\ Cardinality(failedDocs) = Len(all_pdf_files)) =>
        /\ Printed("nothing")
        /\ ~Printed("success")
        /\ writeAttempts = 0
        /\ target = discovered

\* C4: without any per-item failure, the merged output has the pages of the
\* N original PDFs plus one page per image found.
C4_PageCount ==
    (pc = "done" /\ Printed("success") /\ convFailed = {} /\ failedDocs = {}) =>
        /\ Len(writer) = SumPages(discovered, PdfNames(discovered)) + Len(all_image_paths)
        /\ target[output_filename].np = Len(writer)

\* C5: when exactly one collected document failed to read and the merge was
\* reported successful, the failing document contributes no page to the
\* output and every other document contributes all of its pages.
C5_SkipOnFailure ==
    (pc = "done" /\ Printed("success") /\ Cardinality(failedDocs) = 1) =>
        \A d \in 1..Len(all_pdf_files) :
            Cardinality({ p \in DOMAIN writer : writer[p].doc = d }) =
                (IF d \in failedDocs THEN 0
                 ELSE IF all_pdf_files[d].loc = "target"
                      THEN discovered[all_pdf_files[d].name].np
                      ELSE 1)

C7_StateInv ==
    /\ retry <= MAX_RETRIES
    /\ pc = "cleanup" => retry < MAX_RETRIES
    /\ retry = Count(log, "cleaned") + Count(log, "retrying") + Count(log, "leftover")
    /\ Count(log, "cleaned") <= 1
    /\ Printed("cleaned") => (log[Len(log)] = "cleaned" /\ pc \in {"done", "menu"} /\ ~scratchExists)
    /\ slept = DELAY_SECONDS * Count(log, "retrying")
    /\ Count(log, "retrying") =
          (IF pc = "cleanup" \/ retry = 0 THEN retry ELSE retry - 1)
    /\ Printed("leftover") <=>
          (pc \in {"done", "menu"} /\ retry = MAX_RETRIES /\ ~Printed("cleaned"))
    /\ Printed("leftover") => scratchExists
    /\ \A j, k \in DOMAIN log : (j < k /\ IsCleanupLine(log[j])) => ~IsTerminal(log[k])

\* What every step taken inside the retry loop does.
C7_StepProp ==
    /\ (pc = "cleanup" /\ pc' = "cleanup") => retry' = retry + 1
    /\ pc = "cleanup" => (Terminals(log') = Terminals(log) /\ target' = target)

\* C7: the cleanup loop makes at most MAX_RETRIES rmtree attempts, each step
\* of the loop is one more attempt, it sleeps DELAY_SECONDS after every failed
\* attempt but the last, nothing follows a successful attempt, the leftover
\* path is printed exactly when all MAX_RETRIES attempts failed, and no step
\* of the loop changes the result line already printed.
C7_BoundedCleanup == [](C7_StateInv) /\ [][C7_StepProp]_vars

\* A successful merge whose cleanup failed MAX_RETRIES times.
C7_Witness ==
    /\ pc = "done"
    /\ retry = MAX_RETRIES
    /\ Printed("leftover")
    /\ Printed("success")
    /\ slept = DELAY_SECONDS * (MAX_RETRIES - 1)

\* C8: protect_files_in_folder hands every *.pdf, *.xlsx and *.xls entry of
\* the target directory to add_password_to_* exactly once, whatever failed
\* before, and reports success_count = number of files encrypted and
\* total_files = number of candidates, with 0 <= success_count <= total_files.
Candidates ==
    { n \in DOMAIN target : EndsWith(n, PdfExt) \/ EndsWith(n, XlsxExt) \/ EndsWith(n, XlsExt) }

C9_SourcesImmutable ==
    pc \in {"cleanup", "done"} =>
        \A n \in DOMAIN discovered : n \in DOMAIN target /\ target[n] = discovered[n]

\* C10: every document the run collects from the scratch folder was written
\* by this run, from an image of this run's target directory.
C10_ScratchOwned ==
    pc \in {"read", "write"} =>
        \A k \in 1..Len(all_pdf_files) :
            all_pdf_files[k].loc = "temp" =>
                /\ scratch[all_pdf_files[k].name].by = runId
                /\ scratch[all_pdf_files[k].name].from \in Range(all_image_paths)

====
